---- MODULE Spec2Model ----
(***************************************************************************)
(* One unit of the Nextcloud charm (src/charm-nextcloud/src/charm.py).     *)
(*                                                                         *)
(* The unit is a single-threaded event handler: the host runtime delivers  *)
(* one event at a time and the handler runs to completion.  Each action of *)
(* this module is one delivery of one event to one handler, translated     *)
(* from the handler's code.  What the handler reads from its environment   *)
(* (exit codes of the commands it runs, the text the status command        *)
(* prints, the fields of the event) is an input of the action, drawn from  *)
(* a small set.  The other units of the application appear only through    *)
(* what this unit can observe of them: who is leader, the peers of the     *)
(* cluster relation and the application data bag of that relation.         *)
(*                                                                         *)
(* An attribute of self._stored carries the value the handler last         *)
(* assigned to it, also when the handler ends early.                       *)
(*                                                                         *)
(* /var/www/nextcloud and /var/www/nextcloud/config are made by the        *)
(* extraction of the archive, if the archive holds them, and by nothing    *)
(* else but a successful 'occ maintenance:install'.  A command that is run *)
(* in /var/www/nextcloud is not started when that directory is missing,    *)
(* and a file of /var/www/nextcloud/config is not written when that        *)
(* directory is missing: both raise FileNotFoundError, which no handler    *)
(* catches.  The files the handlers write elsewhere (the site and the PHP  *)
(* module configuration) are taken to be written.                          *)
(*                                                                         *)
(* The class Occ (occ.py) is not among the sources.  A call of it runs one *)
(* occ command; when the command fails the call either returns what the    *)
(* command printed or ends the process, and the model follows both.        *)
(*                                                                         *)
(* The state holds what a handler reads.  What a handler only writes (the  *)
(* unit status, the workload version, the commands it runs, the opened     *)
(* port) is recorded in ev, the record of the last delivery.               *)
(*                                                                         *)
(* In Spec the runtime delivers any event at any time, one after the       *)
(* other, a deferred one again or not, and its queue is left out (pending  *)
(* stays empty): ev is the record of a delivery until the process of the   *)
(* hook has ended.  SpecLive is the runtime that delivers the events of a  *)
(* deployment and delivers a deferred event again, with every command      *)
(* succeeding.                                                             *)
(***************************************************************************)
EXTENDS Naturals, Sequences, FiniteSets

VARIABLES
    leader,            \* self.model.unit.is_leader()
    stored,            \* self._stored: the five flags and the connection fields
    root_dir,          \* NEXTCLOUD_ROOT, /var/www/nextcloud, exists
    config_dir,        \* /var/www/nextcloud/config exists
    config_php,        \* content of NEXTCLOUD_CONFIG_PHP, or Absent
    data_dir,          \* /var/www/nextcloud/data exists
    ocdata,            \* /var/www/nextcloud/data/.ocdata exists
    app_config,        \* cluster relation, application data, key 'nextcloud_config'
    peers,             \* ingress addresses of the units of the cluster relation
    install_invoked,   \* 'occ maintenance:install' has been invoked in some delivery
    pending,           \* the events the runtime has yet to deliver, or to deliver again
    ev                 \* the last delivery: event, status set, commands run, outcome

vars == <<leader, stored, root_dir, config_dir, config_php, data_dir, ocdata,
          app_config, peers, install_invoked, pending, ev>>

---------------------------------------------------------------------------
(* Bounds of the model. *)

\* database masters the relation can announce
MaxMasters == 1
\* peer units of the cluster relation
MaxPeers == 2
\* pieces of an output of the status command that is parsed on its own
MaxOut == 3

---------------------------------------------------------------------------
(* Values. *)

None == <<"None">>
\* an attribute of self._stored that was never assigned
Unset == <<"unset">>
Absent == [exists |-> FALSE]

\* exit codes: 1 stands for every non-zero code
RCs == {0, 1}

Flags == {"nextcloud_fetched", "nextcloud_initialized", "apache_configured",
          "php_configured", "database_available"}

ConnFields == {"db_conn_str", "db_uri", "dbname", "dbuser", "dbpass", "dbhost",
               "dbport", "dbtype"}

\* event.master: 0 is None, i > 0 a pgsql.ConnectionString
MasterIds == 0..MaxMasters

ConnectionString(i) ==
    [conn_str |-> <<"conn_str", i>>, uri |-> <<"uri", i>>, dbname |-> <<"dbname", i>>,
     user |-> <<"user", i>>, password |-> <<"password", i>>,
     host |-> <<"host", i>>, port |-> <<"port", i>>]

\* event.database as the relation reports it
Databases == {"nextcloud", "other"}

\* event.extensions as the relation reports it
ExtensionLists == {<< >>, <<"hstore">>}

ThisUnitIP == <<"ip", 0>>
PeerIPs == {<<"ip", i>> : i \in 1..MaxPeers}

\* self.config['fqdn']
NoFqdn == ""
\* the charm configuration: without the key 'fqdn', or with it, empty or not
NoFqdnKey == [has_fqdn |-> FALSE]
EmptyFqdn == [has_fqdn |-> TRUE, fqdn |-> NoFqdn]
Fqdns == {NoFqdnKey, EmptyFqdn, [has_fqdn |-> TRUE, fqdn |-> "cloud.example.org"]}

\* self.unit.status
MaintenanceStatus(m) == [kind |-> "maintenance", msg |-> m]
BlockedStatus(m) == [kind |-> "blocked", msg |-> m]
ActiveStatus(m) == [kind |-> "active", msg |-> m]
\* the delivery has not assigned self.unit.status
NoStatus == [kind |-> "unchanged", msg |-> ""]
\* the delivery has not called set_workload_version
NoVersion == ""

\* A delivery ends "done", "deferred" (event.defer() and return), "exit"
\* (sys.exit(-1)) or "raise" (an exception no handler catches); with the last
\* two the process ends with a non-zero status.
TerminatedNonZero(outcome) == outcome \in {"exit", "raise"}

---------------------------------------------------------------------------
(* The status command and the parsing of its output (get_nextcloud_status). *)

\* The text the status command prints, as a sequence of pieces: a run of
\* whitespace, a run of non-whitespace text that is no JSON, or a JSON status
\* document written without whitespace.
WS == [kind |-> "ws"]
Text == [kind |-> "text"]
StatusJson(installed) == [kind |-> "json", installed |-> installed, version |-> "18.0.3"]

\* str.split(): the maximal runs of pieces that are not whitespace
RECURSIVE Split(_)
Split(out) ==
    IF out = << >> THEN << >>
    ELSE LET rest == Split(Tail(out)) IN
         IF Head(out) = WS THEN rest
         ELSE IF Len(out) > 1 /\ out[2] # WS
              THEN <<(<<Head(out)>> \o Head(rest))>> \o Tail(rest)
              ELSE <<(<<Head(out)>>)>> \o rest

\* json.loads of one token: a dictionary for a token that is exactly one JSON
\* document, an exception for anything else
json_loads(token) ==
    IF Len(token) = 1 /\ token[1].kind = "json"
    THEN [raised |-> FALSE,
          dict |-> [installed |-> token[1].installed, version |-> token[1].version]]
    ELSE [raised |-> TRUE]

\* get_nextcloud_status that parses the first token of the output
get_nextcloud_status_first_token(out) ==
    LET tokens == Split(out) IN
    IF tokens = << >> THEN [raised |-> TRUE]
    ELSE json_loads(tokens[1])

\* json.loads(output.split()[-1]); subprocess.run is called without check=True,
\* so the exit code of the command is never looked at and the except clause for
\* CalledProcessError is never entered.  An empty output raises IndexError.
get_nextcloud_status(out) ==
    LET tokens == Split(out) IN
    IF tokens = << >> THEN [raised |-> TRUE]
    ELSE json_loads(tokens[Len(tokens)])

\* The runs of the status command the handlers are delivered: it succeeds and
\* prints the status document, after a line of other text or alone, or it
\* fails and prints nothing.
StatusRuns ==
    {[rc |-> 0, out |-> <<Text, WS, StatusJson(TRUE)>>],
     [rc |-> 0, out |-> <<StatusJson(FALSE)>>],
     [rc |-> 1, out |-> << >>]}

---------------------------------------------------------------------------
(* _on_update_status *)

\* update_status_label with the Apache and PHP branches in the other order
update_status_label_php_first(s) ==
    IF ~s.nextcloud_fetched THEN BlockedStatus("Nextcloud not fetched.")
    ELSE IF ~s.nextcloud_initialized THEN BlockedStatus("Nextcloud not initialized.")
    ELSE IF ~s.php_configured THEN BlockedStatus("PHP not configured.")
    ELSE IF ~s.apache_configured THEN BlockedStatus("Apache not configured.")
    ELSE IF ~s.database_available THEN BlockedStatus("No database.")
    ELSE ActiveStatus("Ready")

\* the branch of the if/elif chain that is taken
update_status_label(s) ==
    IF ~s.nextcloud_fetched THEN BlockedStatus("Nextcloud not fetched.")
    ELSE IF ~s.nextcloud_initialized THEN BlockedStatus("Nextcloud not initialized.")
    ELSE IF ~s.apache_configured THEN BlockedStatus("Apache not configured.")
    ELSE IF ~s.php_configured THEN BlockedStatus("PHP not configured.")
    ELSE IF ~s.database_available THEN BlockedStatus("No database.")
    ELSE ActiveStatus("Ready")

---------------------------------------------------------------------------
(* The state a handler works on. *)

\* self._stored after __init__ (set_default); dbname .. dbtype get no default
StoredDefault ==
    [nextcloud_fetched |-> FALSE, nextcloud_initialized |-> FALSE,
     database_available |-> FALSE, apache_configured |-> FALSE,
     php_configured |-> FALSE,
     db_conn_str |-> None, db_uri |-> None,
     dbname |-> Unset, dbuser |-> Unset, dbpass |-> Unset, dbhost |-> Unset,
     dbport |-> Unset, dbtype |-> Unset]

NoEvent == [none |-> TRUE]

\* What a handler reads and writes, as it stands when the handler starts:
\* status and workload_version are what the delivery has set so far, cmds
\* collects the commands (with their exit codes) and the other external effects
\* of the delivery in order, outcome is how the delivery ends, event holds the
\* event's writable fields.
Begin(is_leader, event) ==
    [is_leader |-> is_leader, stored |-> stored,
     root_dir |-> root_dir, config_dir |-> config_dir, config_php |-> config_php,
     data_dir |-> data_dir, ocdata |-> ocdata, app_config |-> app_config,
     peers |-> peers, install_invoked |-> install_invoked, event |-> event,
     status |-> NoStatus, workload_version |-> NoVersion,
     cmds |-> << >>, outcome |-> "done"]

\* a command that ended with exit code rc
RunRc(c, cmd, rc) == [c EXCEPT !.cmds = Append(@, [cmd |-> cmd, rc |-> rc])]

\* an effect that has no exit code, or a command whose failure is not followed
Run(c, cmd) == RunRc(c, cmd, 0)

\* /var/www/nextcloud exists
NextcloudRoot(c) == c.root_dir

\* open(path, 'w') / Path(path).write_text of a file of /var/www/nextcloud/config:
\* without the directory FileNotFoundError is raised and nothing is written
write_config_file(c, cmd) ==
    IF ~c.config_dir THEN [c EXCEPT !.outcome = "raise"] ELSE Run(c, cmd)

\* subprocess.call / subprocess.run with cwd='/var/www/nextcloud': without the
\* directory FileNotFoundError is raised and no command runs; otherwise the
\* command ends with exit code rc, which the caller does not look at
call_cwd(c, cmd, rc) ==
    IF ~NextcloudRoot(c) THEN [c EXCEPT !.outcome = "raise"] ELSE RunRc(c, cmd, rc)

\* self.unit.status = st
SetStatus(c, st) == [Run(c, "status-set") EXCEPT !.status = st]

\* the handler has ended early: by event.defer() and return, sys.exit or an exception
Ended(c) == c.outcome # "done"

---------------------------------------------------------------------------
(* _on_update_status, get_nextcloud_status *)

\* _on_update_status that reads the version on every unit
_on_update_status_any_unit(c, status_rc, out) ==
    LET label == update_status_label(c.stored) IN
    IF label.kind # "active" THEN SetStatus(c, label)
    ELSE LET c1 == call_cwd(c, "occ status", status_rc)
             r == get_nextcloud_status(out) IN
         IF Ended(c1) THEN c1
         ELSE IF r.raised THEN [c1 EXCEPT !.outcome = "raise"]
         ELSE SetStatus([Run(c1, "application-version-set") EXCEPT
                             !.workload_version = r.dict.version], label)

_on_update_status(c, status_rc, out) ==
    LET label == update_status_label(c.stored) IN
    IF label.kind # "active" THEN SetStatus(c, label)
    ELSE IF c.is_leader
         THEN LET c1 == call_cwd(c, "occ status", status_rc)
                  r == get_nextcloud_status(out) IN
              IF Ended(c1) THEN c1
              ELSE IF r.raised THEN [c1 EXCEPT !.outcome = "raise"]
              ELSE SetStatus([Run(c1, "application-version-set") EXCEPT
                                  !.workload_version = r.dict.version], label)
         ELSE SetStatus(c, label)

---------------------------------------------------------------------------
(* _on_install, _install_deps, _fetch_and_extract_nextcloud *)

\* what tarfile.extractall(path='/var/www/') leaves in /var/www/nextcloud, by
\* the archive the operator configured and by how far the extraction got: any
\* of the directory itself, its config directory, config.php, the data
\* directory and the .ocdata marker, each with the directory it lies in
Extractions ==
    {m \in [root : BOOLEAN, config : BOOLEAN, config_php : BOOLEAN,
            data : BOOLEAN, ocdata : BOOLEAN] :
        /\ m.config => m.root
        /\ m.config_php => m.config
        /\ m.data => m.root
        /\ m.ocdata => m.data}

\* an archive with another top-level directory
NoDirs == [root |-> FALSE, config |-> FALSE, config_php |-> FALSE,
           data |-> FALSE, ocdata |-> FALSE]
\* the Nextcloud release: the directory and its config directory, no config.php
\* and no data directory
RootAndConfig == [root |-> TRUE, config |-> TRUE, config_php |-> FALSE,
                  data |-> FALSE, ocdata |-> FALSE]

\* config.php as an archive that holds one leaves it
ArchiveConfig == [exists |-> TRUE, origin |-> "archive", trusted_peers |-> {}]

\* requests.get and tarfile raise exceptions that are no CalledProcessError;
\* an extraction that raises (a damaged archive) has made what it got to
FetchResults ==
    {[result |-> "get_error", made |-> NoDirs]}
    \cup {[result |-> r, made |-> m] : r \in {"ok", "extract_error"}, m \in Extractions}

\* the Nextcloud release: download and extraction succeed
ReleaseFetch == [result |-> "ok", made |-> RootAndConfig]

\* _install_deps with subprocess.run called without check=True
_install_deps_unchecked(c, rc) ==
    SetStatus(RunRc(SetStatus(c, MaintenanceStatus("Begin installing dependencies...")),
                    "apt install", rc),
              MaintenanceStatus("Dependencies installed"))

_install_deps(c, rc) ==
    LET c1 == RunRc(SetStatus(c, MaintenanceStatus("Begin installing dependencies...")),
                    "apt install", rc) IN
    \* subprocess.run(check=True): CalledProcessError is caught, print, sys.exit(-1)
    IF rc # 0 THEN [c1 EXCEPT !.outcome = "exit"]
    ELSE SetStatus(c1, MaintenanceStatus("Dependencies installed"))

_fetch_and_extract_nextcloud(c, fetch) ==
    LET c1 == SetStatus(c, MaintenanceStatus("Begin fetching sources."))
        c2 == RunRc(c1, "requests.get", IF fetch.result = "get_error" THEN 1 ELSE 0)
        c3 == [RunRc(c2, "tarfile.extractall",
                     IF fetch.result = "extract_error" THEN 1 ELSE 0) EXCEPT
                   !.root_dir = @ \/ fetch.made.root,
                   !.config_dir = @ \/ fetch.made.config,
                   !.config_php = IF fetch.made.config_php THEN ArchiveConfig ELSE @,
                   !.data_dir = @ \/ fetch.made.data,
                   !.ocdata = @ \/ fetch.made.ocdata] IN
    IF fetch.result = "get_error" THEN [c2 EXCEPT !.outcome = "raise"]
    ELSE IF fetch.result = "extract_error" THEN [c3 EXCEPT !.outcome = "raise"]
    ELSE [SetStatus(c3, MaintenanceStatus("Sources installed")) EXCEPT
              !.stored.nextcloud_fetched = TRUE]

\* _on_install without the test of nextcloud_fetched
_on_install_always_fetch(c, rc, fetch) ==
    LET c1 == _install_deps(c, rc) IN
    IF Ended(c1) THEN c1 ELSE _fetch_and_extract_nextcloud(c1, fetch)

_on_install(c, rc, fetch) ==
    LET c1 == _install_deps(c, rc) IN
    IF Ended(c1) THEN c1
    ELSE IF ~c1.stored.nextcloud_fetched THEN _fetch_and_extract_nextcloud(c1, fetch)
    ELSE c1

---------------------------------------------------------------------------
(* _on_config_changed, _config_apache2, _config_php *)

\* subprocess.check_call raises CalledProcessError, which nothing here catches
check_call(c, cmd, rc) ==
    IF rc # 0 THEN [RunRc(c, cmd, rc) EXCEPT !.outcome = "raise"] ELSE RunRc(c, cmd, rc)

\* for module in ['rewrite', 'headers', 'env', 'dir', 'mime']: subprocess.call
A2enmod == <<"a2enmod rewrite", "a2enmod headers", "a2enmod env", "a2enmod dir",
             "a2enmod mime">>

RECURSIVE RunAll(_, _)
RunAll(c, cmds) == IF cmds = << >> THEN c ELSE RunAll(Run(c, Head(cmds)), Tail(cmds))

\* _config_apache2 that sets the flag before it enables the site
_config_apache2_flag_first(c, dissite_rc, ensite_rc) ==
    LET c1 == Run(SetStatus(c, MaintenanceStatus("Begin config apache2.")),
                  "write nextcloud.conf")
        c2 == RunAll(c1, A2enmod)
        c3 == check_call(c2, "a2dissite 000-default", dissite_rc)
        c4 == check_call([c3 EXCEPT !.stored.apache_configured = TRUE],
                         "a2ensite nextcloud", ensite_rc) IN
    IF Ended(c3) THEN c3
    ELSE IF Ended(c4) THEN c4
    ELSE SetStatus(c4, MaintenanceStatus("apache2 config complete."))

_config_apache2(c, dissite_rc, ensite_rc) ==
    LET c1 == Run(SetStatus(c, MaintenanceStatus("Begin config apache2.")),
                  "write nextcloud.conf")
        c2 == RunAll(c1, A2enmod)
        c3 == check_call(c2, "a2dissite 000-default", dissite_rc)
        c4 == check_call(c3, "a2ensite nextcloud", ensite_rc) IN
    IF Ended(c3) THEN c3
    ELSE IF Ended(c4) THEN c4
    ELSE SetStatus([c4 EXCEPT !.stored.apache_configured = TRUE],
                   MaintenanceStatus("apache2 config complete."))

_config_php(c, phpenmod_rc) ==
    LET c1 == Run(SetStatus(c, MaintenanceStatus("Begin config php.")),
                  "write nextcloud.ini")
        c2 == check_call(c1, "phpenmod nextcloud", phpenmod_rc) IN
    IF Ended(c2) THEN c2
    ELSE SetStatus([c2 EXCEPT !.stored.php_configured = TRUE],
                   MaintenanceStatus("php config complete."))

_on_config_changed(c, dissite_rc, ensite_rc, phpenmod_rc, restart_rc, status_rc, out) ==
    LET c1 == _config_apache2(c, dissite_rc, ensite_rc)
        c2 == _config_php(c1, phpenmod_rc)
        c3 == check_call(c2, "systemctl restart apache2.service", restart_rc) IN
    IF Ended(c1) THEN c1
    ELSE IF Ended(c2) THEN c2
    ELSE IF Ended(c3) THEN c3
    ELSE _on_update_status(c3, status_rc, out)

---------------------------------------------------------------------------
(* The application's configuration file and the occ commands that edit it.  *)
(* occ.py is not part of the sources at hand: these follow the description. *)
(* Of the content of config.php the model keeps who wrote it and the peer   *)
(* addresses among its trusted domains; the entries that                    *)
(* _add_initial_trusted_domain sets appear as commands of the delivery.     *)

\* How a call of the class Occ ends: the command succeeds; the command fails
\* and the call returns what it printed; or the command fails and the process
\* is ended, as the description has a failing CLI invocation do.
OccResults == {"ok", "failed", "fatal"}
OccRc(res) == IF res = "ok" THEN 0 ELSE 1

Occ_call(c, cmd, res) ==
    LET c1 == RunRc(c, cmd, OccRc(res)) IN
    IF res = "fatal" THEN [c1 EXCEPT !.outcome = "exit"] ELSE c1

\* config.php as 'occ maintenance:install' leaves it on this unit
InstalledConfig == [exists |-> TRUE, origin |-> "install", trusted_peers |-> {}]

\* the external effect of 'occ maintenance:install': a successful run writes config.php
occ_maintenance_install(config, rc) ==
    IF rc = 0 THEN InstalledConfig ELSE config

\* Occ.update_trusted_domains_peer_ips(ips): the peers' addresses replace the
\* ones recorded before
Occ_update_trusted_domains_peer_ips(config, ips) ==
    IF config.exists THEN [config EXCEPT !.trusted_peers = ips] ELSE config

\* the configuration a leader on another unit publishes
RemoteLeaderIP == <<"ip", MaxPeers + 1>>
RemoteConfigs ==
    {[exists |-> TRUE, origin |-> "remote",
      trusted_peers |-> {ThisUnitIP, RemoteLeaderIP}]}

\* 'occ status' reads its answer from config.php: after the install command it
\* reports installed only if the file is there.
StatusAfterInstall(config, install_rc, run) ==
    LET r == get_nextcloud_status(run.out) IN
    (~r.raised /\ r.dict.installed) => occ_maintenance_install(config, install_rc).exists

---------------------------------------------------------------------------
(* _on_database_relation_joined *)

\* _on_database_relation_joined without the test for the leader
_on_database_relation_joined_any_unit(c) ==
    [c EXCEPT !.event.database = "nextcloud", !.event.extensions = <<"citext">>]

_on_database_relation_joined(c) ==
    IF c.is_leader
    THEN [c EXCEPT !.event.database = "nextcloud",
                   !.event.extensions = <<"citext">>]
    ELSE IF c.event.database # "nextcloud"
         THEN [c EXCEPT !.outcome = "deferred"]
         ELSE c

---------------------------------------------------------------------------
(* _on_master_changed, _init_nextcloud, _add_initial_trusted_domain *)

\* master_changed_proceeds without the return of a unit that is not the leader
master_changed_proceeds_any_unit(database, is_leader) ==
    database = "nextcloud"

\* the two early returns: the handler goes on only for the database 'nextcloud'
\* and only on the leader
master_changed_proceeds(database, is_leader) ==
    IF database # "nextcloud" THEN FALSE
    ELSE IF ~is_leader THEN FALSE
    ELSE TRUE

\* master_conn_fields that leaves the password of a master that went away
master_conn_fields_keeps_dbpass(s, master) ==
    IF master = 0
    THEN [s EXCEPT !.db_conn_str = None, !.db_uri = None, !.dbname = None,
                   !.dbuser = None, !.dbhost = None, !.dbport = None,
                   !.dbtype = None]
    ELSE LET m == ConnectionString(master) IN
         [s EXCEPT !.db_conn_str = m.conn_str, !.db_uri = m.uri,
                   !.dbname = m.dbname, !.dbuser = m.user, !.dbpass = m.password,
                   !.dbhost = m.host, !.dbport = m.port, !.dbtype = <<"pgsql">>]

\* master_conn_fields that also takes database_available back when the master
\* went away
master_conn_fields_resets_flag(s, master) ==
    IF master = 0
    THEN [s EXCEPT !.db_conn_str = None, !.db_uri = None, !.dbname = None,
                   !.dbuser = None, !.dbpass = None, !.dbhost = None,
                   !.dbport = None, !.dbtype = None,
                   !.database_available = FALSE]
    ELSE LET m == ConnectionString(master) IN
         [s EXCEPT !.db_conn_str = m.conn_str, !.db_uri = m.uri,
                   !.dbname = m.dbname, !.dbuser = m.user, !.dbpass = m.password,
                   !.dbhost = m.host, !.dbport = m.port, !.dbtype = <<"pgsql">>]

\* the eight assignments: None if event.master is None, else the master's fields
master_conn_fields(s, master) ==
    IF master = 0
    THEN [s EXCEPT !.db_conn_str = None, !.db_uri = None, !.dbname = None,
                   !.dbuser = None, !.dbpass = None, !.dbhost = None,
                   !.dbport = None, !.dbtype = None]
    ELSE LET m == ConnectionString(master) IN
         [s EXCEPT !.db_conn_str = m.conn_str, !.db_uri = m.uri,
                   !.dbname = m.dbname, !.dbuser = m.user, !.dbpass = m.password,
                   !.dbhost = m.host, !.dbport = m.port, !.dbtype = <<"pgsql">>]

\* if event.master and event.database == 'nextcloud'
master_available(database, master) == master # 0 /\ database = "nextcloud"

\* needs_init that does not look at the flag
needs_init_always(s) == TRUE

\* if not self._stored.nextcloud_initialized
needs_init(s) == ~s.nextcloud_initialized

\* subprocess.call(.., cwd='/var/www/nextcloud'): the exit code is returned and dropped
_set_directory_permissions(c) == call_cwd(c, "chown www-data", 0)

_init_nextcloud(c, install_rc) ==
    LET c1 == call_cwd(SetStatus(c, MaintenanceStatus("Begin initializing nextcloud...")),
                       "occ maintenance:install", install_rc) IN
    IF Ended(c1) THEN c1
    ELSE
    \* what a successful run leaves behind: config.php in its directory, the
    \* data directory and its .ocdata marker
    [c1 EXCEPT !.install_invoked = TRUE,
               !.config_dir = @ \/ install_rc = 0,
               !.config_php = occ_maintenance_install(@, install_rc),
               !.data_dir = @ \/ install_rc = 0,
               !.ocdata = @ \/ install_rc = 0]

\* `if self.config['fqdn']` is a KeyError for a configuration without the key;
\* Occ.add_trusted_domain(domain, index)
_add_initial_trusted_domain(c, fqdn, occ_fqdn, occ_ingress) ==
    IF ~fqdn.has_fqdn THEN [c EXCEPT !.outcome = "raise"]
    ELSE LET c1 == IF fqdn.fqdn # NoFqdn
                   THEN Occ_call(c, "occ trusted_domains 1 fqdn", occ_fqdn) ELSE c IN
         IF Ended(c1) THEN c1
         ELSE Occ_call(c1, "occ trusted_domains 2 ingress-address", occ_ingress)

\* _on_master_changed that records the database as available only once the
\* application is initialized
_on_master_changed_available_last(c, install_rc, status_rc, out, fqdn, occ_fqdn, occ_ingress) ==
    IF ~master_changed_proceeds(c.event.database, c.is_leader) THEN c
    ELSE
    LET c1 == [c EXCEPT !.stored = master_conn_fields(@, c.event.master)] IN
    IF ~master_available(c.event.database, c.event.master) THEN c1
    ELSE
    IF ~needs_init(c1.stored) THEN [c1 EXCEPT !.stored.database_available = TRUE]
    ELSE
    LET c3 == _set_directory_permissions(c1)
        c4 == _init_nextcloud(c3, install_rc)
        c5 == _add_initial_trusted_domain(c4, fqdn, occ_fqdn, occ_ingress)
        c6 == call_cwd(c5, "occ status", status_rc)
        r == get_nextcloud_status(out) IN
    IF Ended(c3) THEN c3
    ELSE IF Ended(c4) THEN c4
    ELSE IF Ended(c5) THEN c5
    ELSE IF Ended(c6) THEN c6
    ELSE IF r.raised THEN [c6 EXCEPT !.outcome = "raise"]
    ELSE IF r.dict.installed
         THEN [c6 EXCEPT !.stored.nextcloud_initialized = TRUE,
                         !.stored.database_available = TRUE]
         ELSE c6

_on_master_changed(c, install_rc, status_rc, out, fqdn, occ_fqdn, occ_ingress) ==
    IF ~master_changed_proceeds(c.event.database, c.is_leader) THEN c
    ELSE
    LET c1 == [c EXCEPT !.stored = master_conn_fields(@, c.event.master)] IN
    IF ~master_available(c.event.database, c.event.master) THEN c1
    ELSE
    LET c2 == [c1 EXCEPT !.stored.database_available = TRUE] IN
    IF ~needs_init(c2.stored) THEN c2
    ELSE
    LET c3 == _set_directory_permissions(c2)
        c4 == _init_nextcloud(c3, install_rc)
        c5 == _add_initial_trusted_domain(c4, fqdn, occ_fqdn, occ_ingress)
        c6 == call_cwd(c5, "occ status", status_rc)
        r == get_nextcloud_status(out) IN
    IF Ended(c3) THEN c3
    ELSE IF Ended(c4) THEN c4
    ELSE IF Ended(c5) THEN c5
    ELSE IF Ended(c6) THEN c6
    ELSE IF r.raised THEN [c6 EXCEPT !.outcome = "raise"]
    ELSE IF r.dict.installed
         THEN [c6 EXCEPT !.stored.nextcloud_initialized = TRUE]
         ELSE c6

---------------------------------------------------------------------------
(* The cluster relation: update_config_php_trusted_domains, _on_leader_elected, *)
(* _on_cluster_relation_joined / _changed / _departed / _broken                *)

\* the call Occ.update_trusted_domains_peer_ips(ips), recorded with the list it
\* is handed; a successful call edits config.php
call_update_trusted_domains_peer_ips(c, ips, occ) ==
    [c EXCEPT !.cmds = Append(@, [cmd |-> "occ trusted_domains peers",
                                  rc |-> OccRc(occ), ips |-> ips]),
              !.config_php = IF occ = "ok"
                             THEN Occ_update_trusted_domains_peer_ips(@, ips) ELSE @,
              !.outcome = IF occ = "fatal" THEN "exit" ELSE @]

\* rel_unit_ip that leaves out the address of this unit
rel_unit_ip_peers_only(peer_ips, this_unit_ip) == peer_ips

\* the addresses of the units of the relation, then rel_unit_ip.append(this_unit_ip)
rel_unit_ip(peer_ips, this_unit_ip) == peer_ips \cup {this_unit_ip}

update_config_php_trusted_domains(c, occ) ==
    IF ~c.config_php.exists THEN c
    ELSE LET c1 == call_update_trusted_domains_peer_ips(
                       c, rel_unit_ip(c.peers, ThisUnitIP), occ) IN
         IF Ended(c1) THEN c1
         \* cluster_rel.data[self.app]['nextcloud_config'] = the content of the file
         ELSE [Run(c1, "relation-set nextcloud_config") EXCEPT
                   !.app_config = c1.config_php]

_on_leader_elected(c, occ) == update_config_php_trusted_domains(c, occ)

_on_cluster_relation_joined(c, occ) ==
    IF c.is_leader
    THEN IF ~c.stored.nextcloud_initialized
         THEN [c EXCEPT !.outcome = "deferred"]
         ELSE update_config_php_trusted_domains(c, occ)
    ELSE c

\* copy_leader_config that does not record the initialization
copy_leader_config_unrecorded(c, nextcloud_config) ==
    LET c0 == write_config_file(c, "write config.php")
        c1 == [c0 EXCEPT !.config_php = nextcloud_config]
        c2 == IF ~c1.data_dir
              THEN [Run(c1, "mkdir data") EXCEPT !.data_dir = TRUE]
              ELSE c1
        c3 == IF ~c2.ocdata
              THEN [Run(c2, "create .ocdata") EXCEPT !.ocdata = TRUE]
              ELSE c2
        c4 == _set_directory_permissions(c3) IN
    IF Ended(c0) THEN c0
    ELSE IF Ended(c4) THEN c4
    ELSE [c4 EXCEPT !.stored.database_available = TRUE]

\* the body of _on_cluster_relation_changed for a unit that is not the leader,
\* with the payload `nextcloud_config`
copy_leader_config(c, nextcloud_config) ==
    LET c0 == write_config_file(c, "write config.php")
        c1 == [c0 EXCEPT !.config_php = nextcloud_config]
        c2 == IF ~c1.data_dir
              THEN [Run(c1, "mkdir data") EXCEPT !.data_dir = TRUE]
              ELSE c1
        c3 == IF ~c2.ocdata
              THEN [Run(c2, "create .ocdata") EXCEPT !.ocdata = TRUE]
              ELSE c2
        c4 == _set_directory_permissions(c3)
        c5 == [c4 EXCEPT !.stored.database_available = TRUE] IN
    IF Ended(c0) THEN c0
    ELSE IF Ended(c4) THEN c4
    ELSE [c5 EXCEPT !.stored.nextcloud_initialized = TRUE]

\* _on_cluster_relation_changed without the test for the payload
_on_cluster_relation_changed_no_defer(c) ==
    IF ~c.is_leader THEN copy_leader_config(c, c.app_config) ELSE c

\* _on_cluster_relation_changed that creates the marker on every delivery and
\* does not record the initialization
_on_cluster_relation_changed_forgetful(c) ==
    IF ~c.is_leader
    THEN IF ~c.app_config.exists
         THEN [c EXCEPT !.outcome = "deferred"]
         ELSE LET c0 == write_config_file(c, "write config.php")
                  c1 == [c0 EXCEPT !.config_php = c.app_config]
                  c2 == [Run(c1, "mkdir data") EXCEPT !.data_dir = TRUE]
                  c3 == [Run(c2, "create .ocdata") EXCEPT !.ocdata = TRUE]
                  c4 == _set_directory_permissions(c3) IN
              IF Ended(c0) THEN c0
              ELSE IF Ended(c4) THEN c4
              ELSE [c4 EXCEPT !.stored.database_available = TRUE]
    ELSE c

_on_cluster_relation_changed(c) ==
    IF ~c.is_leader
    THEN IF ~c.app_config.exists
         THEN [c EXCEPT !.outcome = "deferred"]
         ELSE copy_leader_config(c, c.app_config)
    ELSE c

\* _on_cluster_relation_departed without the test for the leader
_on_cluster_relation_departed_any_unit(c, occ) ==
    update_config_php_trusted_domains(c, occ)

_on_cluster_relation_departed(c, occ) ==
    IF c.is_leader THEN update_config_php_trusted_domains(c, occ) ELSE c

_on_cluster_relation_broken(c) == c

---------------------------------------------------------------------------
(* _on_start *)

\* _on_start without the test of nextcloud_initialized
_on_start_no_defer(c, restart_rc, status_rc, out) ==
    LET c1 == RunRc(c, "systemctl restart apache2.service", restart_rc) IN
    IF restart_rc # 0 THEN [c1 EXCEPT !.outcome = "exit"]
    ELSE LET c2 == _on_update_status(c1, status_rc, out) IN
         IF Ended(c2) THEN c2
         ELSE Run(c2, "open-port 80")

_on_start(c, restart_rc, status_rc, out) ==
    IF ~c.stored.nextcloud_initialized THEN [c EXCEPT !.outcome = "deferred"]
    ELSE LET c1 == RunRc(c, "systemctl restart apache2.service", restart_rc) IN
         \* CalledProcessError is caught: print and sys.exit(-1)
         IF restart_rc # 0 THEN [c1 EXCEPT !.outcome = "exit"]
         ELSE LET c2 == _on_update_status(c1, status_rc, out) IN
              IF Ended(c2) THEN c2
              ELSE Run(c2, "open-port 80")

---------------------------------------------------------------------------
(* The actions and _on_redis_available *)

\* Occ.maintenance(enable): 'occ maintenance:mode --on/--off'
Occ_maintenance(c, enable, occ) ==
    Occ_call(c, IF enable THEN "occ maintenance:mode --on"
                ELSE "occ maintenance:mode --off", occ)

_on_add_missing_indices_action(c, occ) ==
    LET c1 == Occ_call(c, "occ db:add-missing-indices", occ) IN
    IF Ended(c1) THEN c1 ELSE Run(c1, "set_results")

\* _on_convert_filecache_bigint_action that turns maintenance mode off before
\* it runs the conversion
_on_convert_filecache_bigint_action_off_first(c, occ_on, occ_convert, occ_off) ==
    LET c1 == Occ_maintenance(c, TRUE, occ_on)
        c2 == Occ_maintenance(c1, FALSE, occ_off)
        c3 == Occ_call(c2, "occ db:convert-filecache-bigint", occ_convert) IN
    IF Ended(c1) THEN c1
    ELSE IF Ended(c2) THEN c2
    ELSE IF Ended(c3) THEN c3
    ELSE Run(c3, "set_results")

\* the four statements follow one another with no try/finally: a call that ends
\* the process leaves the later ones undone
_on_convert_filecache_bigint_action(c, occ_on, occ_convert, occ_off) ==
    LET c1 == Occ_maintenance(c, TRUE, occ_on)
        c2 == Occ_call(c1, "occ db:convert-filecache-bigint", occ_convert)
        c3 == Run(c2, "set_results") IN
    IF Ended(c1) THEN c1
    ELSE IF Ended(c2) THEN c2
    ELSE Occ_maintenance(c3, FALSE, occ_off)

_on_maintenance_action(c, enable, occ) ==
    LET c1 == Occ_maintenance(c, enable, occ) IN
    IF Ended(c1) THEN c1 ELSE Run(c1, "set_results")

_on_redis_available(c) == write_config_file(c, "write redis.config.php")

---------------------------------------------------------------------------
(* Deliveries. *)

\* no delivery: the state before the first event and after a step of the environment
NoDelivery ==
    [name |-> "none", is_leader |-> FALSE, args |-> NoEvent, event |-> NoEvent,
     status |-> NoStatus, workload_version |-> NoVersion,
     cmds |-> << >>, outcome |-> "done"]

\* The state after the delivery of event `name`, whose fields were `args`, that
\* took the handler from Begin(..) to n.
Deliver(name, args, n) ==
    /\ leader' = n.is_leader
    /\ stored' = n.stored
    /\ root_dir' = n.root_dir
    /\ config_dir' = n.config_dir
    /\ config_php' = n.config_php
    /\ data_dir' = n.data_dir
    /\ ocdata' = n.ocdata
    /\ app_config' = n.app_config
    /\ peers' = n.peers
    /\ install_invoked' = n.install_invoked
    /\ ev' = [name |-> name, is_leader |-> n.is_leader, args |-> args,
              event |-> n.event, status |-> n.status,
              workload_version |-> n.workload_version,
              cmds |-> n.cmds, outcome |-> n.outcome]

\* the process of the hook before has ended: the runtime starts the process of
\* a hook only then
Idle == ev = NoDelivery

\* a delivery of the runtime of Spec, whose queue is not followed
Commit(name, args, n) ==
    /\ Deliver(name, args, n)
    /\ UNCHANGED pending

\* the process of the hook ends: the unit waits for the next event
Return ==
    /\ ev # NoDelivery
    /\ ev' = NoDelivery
    /\ UNCHANGED <<leader, stored, root_dir, config_dir, config_php, data_dir,
                   ocdata, app_config, peers, install_invoked, pending>>

\* An input is drawn only for a command the handler runs: for a command it does
\* not reach, the action passes 0, NoRun, ReleaseFetch, EmptyFqdn or "ok", which
\* the handler never reads.
NoRun == [rc |-> 0, out |-> << >>]

Install ==
    /\ Idle
    /\ \E rc \in RCs :
       \E fetch \in IF rc = 0 /\ ~stored.nextcloud_fetched
                     THEN FetchResults ELSE {ReleaseFetch} :
           Commit("install", NoEvent, _on_install(Begin(leader, NoEvent), rc, fetch))

\* the command of a config-changed delivery that fails, if any
ConfigFailures == {"none", "a2dissite", "a2ensite", "phpenmod", "restart"}
RcOf(failure, cmd) == IF failure = cmd THEN 1 ELSE 0

ConfigChanged ==
    /\ Idle
    /\ \E failure \in ConfigFailures :
       \E run \in IF failure = "none" THEN StatusRuns ELSE {NoRun} :
           Commit("config_changed", NoEvent,
                  _on_config_changed(Begin(leader, NoEvent),
                                     RcOf(failure, "a2dissite"), RcOf(failure, "a2ensite"),
                                     RcOf(failure, "phpenmod"), RcOf(failure, "restart"),
                                     run.rc, run.out))

Start ==
    /\ Idle
    /\ \E restart_rc \in RCs :
       \E run \in IF restart_rc = 0 THEN StatusRuns ELSE {NoRun} :
           Commit("start", NoEvent,
                  _on_start(Begin(leader, NoEvent), restart_rc, run.rc, run.out))

\* the hook runs on the unit that was elected
LeaderElected ==
    /\ Idle
    /\ \E occ \in OccResults :
           Commit("leader_elected", NoEvent, _on_leader_elected(Begin(TRUE, NoEvent), occ))

DatabaseRelationJoined ==
    /\ Idle
    /\ \E database \in Databases, extensions \in ExtensionLists :
           LET event == [database |-> database, extensions |-> extensions] IN
           Commit("database_relation_joined", event,
                  _on_database_relation_joined(Begin(leader, event)))

MasterChanged ==
    /\ Idle
    /\ \E database \in Databases, master \in MasterIds :
           LET event == [database |-> database, master |-> master]
               quiet == _on_master_changed(Begin(leader, event), 0,
                                           NoRun.rc, NoRun.out, EmptyFqdn, "ok", "ok") IN
           IF quiet.cmds = << >>
           THEN Commit("master_changed", event, quiet)
           ELSE \E install_rc \in RCs, run \in StatusRuns, fqdn \in Fqdns :
                \E occ_fqdn \in IF fqdn.has_fqdn /\ fqdn.fqdn # NoFqdn
                                 THEN OccResults ELSE {"ok"} :
                \E occ_ingress \in IF fqdn.has_fqdn /\ occ_fqdn # "fatal"
                                    THEN OccResults ELSE {"ok"} :
                    /\ StatusAfterInstall(config_php, install_rc, run)
                    /\ Commit("master_changed", event,
                           _on_master_changed(Begin(leader, event), install_rc,
                                              run.rc, run.out, fqdn,
                                              occ_fqdn, occ_ingress))

UpdateStatus ==
    /\ Idle
    /\ \E run \in StatusRuns :
           Commit("update_status", NoEvent,
                  _on_update_status(Begin(leader, NoEvent), run.rc, run.out))

\* a unit joined the relation, or the deferred event is delivered again
ClusterRelationJoined ==
    /\ Idle
    /\ \E ip \in PeerIPs, occ \in OccResults :
           Commit("cluster_relation_joined", [unit |-> ip],
                  _on_cluster_relation_joined(
                      [Begin(leader, NoEvent) EXCEPT !.peers = @ \cup {ip}], occ))

ClusterRelationChanged ==
    /\ Idle
    /\ Commit("cluster_relation_changed", NoEvent,
              _on_cluster_relation_changed(Begin(leader, NoEvent)))

ClusterRelationDeparted ==
    /\ Idle
    /\ \E ip \in PeerIPs, occ \in OccResults :
           Commit("cluster_relation_departed", [unit |-> ip],
                  _on_cluster_relation_departed(
                      [Begin(leader, NoEvent) EXCEPT !.peers = @ \ {ip}], occ))

ClusterRelationBroken ==
    /\ Idle
    /\ Commit("cluster_relation_broken", NoEvent,
              _on_cluster_relation_broken(Begin(leader, NoEvent)))

AddMissingIndicesAction ==
    /\ Idle
    /\ \E occ \in OccResults :
           Commit("add_missing_indices_action", NoEvent,
                  _on_add_missing_indices_action(Begin(leader, NoEvent), occ))

ConvertFilecacheBigintAction ==
    /\ Idle
    /\ \E occ_on \in OccResults :
       \E occ_convert \in IF occ_on = "fatal" THEN {"ok"} ELSE OccResults :
       \E occ_off \in IF "fatal" \in {occ_on, occ_convert} THEN {"ok"} ELSE OccResults :
           Commit("convert_filecache_bigint_action", NoEvent,
                  _on_convert_filecache_bigint_action(
                      Begin(leader, NoEvent), occ_on, occ_convert, occ_off))

MaintenanceAction ==
    /\ Idle
    /\ \E enable \in BOOLEAN, occ \in OccResults :
           Commit("maintenance_action", [enable |-> enable],
                  _on_maintenance_action(Begin(leader, NoEvent), enable, occ))

RedisAvailable ==
    /\ Idle
    /\ Commit("redis_available", NoEvent, _on_redis_available(Begin(leader, NoEvent)))

---------------------------------------------------------------------------
(* The environment: the other units. *)

\* another unit is elected leader
LoseLeadership ==
    /\ leader
    /\ leader' = FALSE
    /\ ev' = NoDelivery
    /\ UNCHANGED <<stored, root_dir, config_dir, config_php, data_dir, ocdata,
                   app_config, peers, install_invoked, pending>>

\* the leader, on another unit, publishes its configuration
RemotePublish ==
    /\ ~leader
    /\ \E config \in RemoteConfigs : app_config' = config
    /\ ev' = NoDelivery
    /\ UNCHANGED <<leader, stored, root_dir, config_dir, config_php, data_dir,
                   ocdata, peers, install_invoked, pending>>

---------------------------------------------------------------------------

Init ==
    /\ leader = FALSE
    /\ stored = StoredDefault
    /\ root_dir = FALSE
    /\ config_dir = FALSE
    /\ config_php = Absent
    /\ data_dir = FALSE
    /\ ocdata = FALSE
    /\ app_config = Absent
    /\ peers = {}
    /\ install_invoked = FALSE
    /\ pending = {}
    /\ ev = NoDelivery

Next ==
    \/ Install
    \/ ConfigChanged
    \/ Start
    \/ LeaderElected
    \/ DatabaseRelationJoined
    \/ MasterChanged
    \/ UpdateStatus
    \/ ClusterRelationJoined
    \/ ClusterRelationChanged
    \/ ClusterRelationDeparted
    \/ ClusterRelationBroken
    \/ AddMissingIndicesAction
    \/ ConvertFilecacheBigintAction
    \/ MaintenanceAction
    \/ RedisAvailable
    \/ Return
    \/ Idle /\ LoseLeadership
    \/ Idle /\ RemotePublish

Spec == Init /\ [][Next]_vars

---------------------------------------------------------------------------
(* Status evaluation alone: _on_update_status run on every combination of   *)
(* the five flags, on a leader and on a non-leader.                         *)

InitStatus ==
    /\ leader \in BOOLEAN
    /\ stored \in {[StoredDefault EXCEPT !.nextcloud_fetched = f[1],
                                         !.nextcloud_initialized = f[2],
                                         !.apache_configured = f[3],
                                         !.php_configured = f[4],
                                         !.database_available = f[5]] :
                   f \in [1..5 -> BOOLEAN]}
    \* a unit is initialized only by a handler that found the directories
    /\ root_dir \in BOOLEAN
    /\ config_dir \in BOOLEAN
    /\ config_dir => root_dir
    /\ stored.nextcloud_initialized => root_dir /\ config_dir
    /\ config_php = Absent
    /\ data_dir = FALSE
    /\ ocdata = FALSE
    /\ app_config = Absent
    /\ peers = {}
    /\ install_invoked = FALSE
    /\ pending = {}
    /\ ev = NoDelivery

SpecStatus == InitStatus /\ [][UpdateStatus]_vars

---------------------------------------------------------------------------
(* Status parsing alone: get_nextcloud_status applied to every output of at *)
(* most MaxOut pieces, on a unit with /var/www/nextcloud and on one without. *)

Pieces == {WS, Text, StatusJson(TRUE), StatusJson(FALSE)}
Outputs == UNION {[1..n -> Pieces] : n \in 0..MaxOut}

InitParse ==
    /\ leader = FALSE
    /\ stored = StoredDefault
    /\ root_dir \in BOOLEAN
    /\ config_dir = FALSE
    /\ config_php = Absent
    /\ data_dir = FALSE
    /\ ocdata = FALSE
    /\ app_config = Absent
    /\ peers = {}
    /\ install_invoked = FALSE
    /\ pending = {}
    /\ ev \in {[name |-> "none", out |-> out] : out \in Outputs}

\* self.get_nextcloud_status(): subprocess.run in /var/www/nextcloud, then the
\* parsing of what the command printed
Parse ==
    /\ ev.name = "none"
    /\ \E rc \in RCs :
           LET c1 == call_cwd(Begin(leader, NoEvent), "occ status", rc) IN
           ev' = [name |-> "get_nextcloud_status", out |-> ev.out, cmds |-> c1.cmds,
                  result |-> IF Ended(c1) THEN [raised |-> TRUE]
                             ELSE get_nextcloud_status(ev.out)]
    /\ UNCHANGED <<leader, stored, root_dir, config_dir, config_php, data_dir,
                   ocdata, app_config, peers, install_invoked, pending>>

SpecParse == InitParse /\ [][Parse]_vars

---------------------------------------------------------------------------
(* A deployment in which every command succeeds and the archive is the       *)
(* Nextcloud release: the runtime delivers the                               *)
(* events of pending, in any order, and delivers an event again as long as   *)
(* its handler defers it or fails; update-status is delivered time and       *)
(* again.  The unit is the leader, or it is not and the leader is on another *)
(* unit.  The charm configuration is any of Fqdns.                           *)

LeaderEvents == {"install", "leader_elected", "config_changed", "start",
                 "master_changed"}
FollowerEvents == {"install", "config_changed", "start", "cluster_relation_changed"}

\* the status command succeeds: it prints the status document of an installed
\* application
SuccessRuns ==
    {run \in StatusRuns :
        /\ run.rc = 0
        /\ ~get_nextcloud_status(run.out).raised
        /\ get_nextcloud_status(run.out).dict.installed}

\* the delivery of a pending event: it stays pending, to be delivered again,
\* if the handler defers it or fails
Redeliver(name, args, n) ==
    /\ name \in pending
    /\ Deliver(name, args, n)
    /\ pending' = IF n.outcome = "done" THEN pending \ {name} ELSE pending

LiveInstall ==
    Redeliver("install", NoEvent,
              _on_install(Begin(leader, NoEvent), 0, ReleaseFetch))

LiveConfigChanged ==
    \E run \in SuccessRuns :
        Redeliver("config_changed", NoEvent,
                  _on_config_changed(Begin(leader, NoEvent), 0, 0, 0, 0,
                                     run.rc, run.out))

LiveStart ==
    \E run \in SuccessRuns :
        Redeliver("start", NoEvent,
                  _on_start(Begin(leader, NoEvent), 0, run.rc, run.out))

LiveLeaderElected ==
    Redeliver("leader_elected", NoEvent,
              _on_leader_elected(Begin(TRUE, NoEvent), "ok"))

\* the database relation announces a master for the database the leader asked for
LiveMasterChanged ==
    \E master \in MasterIds \ {0}, run \in SuccessRuns, fqdn \in Fqdns :
        LET event == [database |-> "nextcloud", master |-> master] IN
        Redeliver("master_changed", event,
                  _on_master_changed(Begin(leader, event), 0, run.rc, run.out, fqdn,
                                     "ok", "ok"))

LiveClusterRelationChanged ==
    Redeliver("cluster_relation_changed", NoEvent,
              _on_cluster_relation_changed(Begin(leader, NoEvent)))

\* the update-status hook is periodic
LiveUpdateStatus ==
    \E run \in SuccessRuns :
        /\ Deliver("update_status", NoEvent,
                   _on_update_status(Begin(leader, NoEvent), run.rc, run.out))
        /\ UNCHANGED pending

InitLive ==
    /\ leader \in BOOLEAN
    /\ stored = StoredDefault
    /\ root_dir = FALSE
    /\ config_dir = FALSE
    /\ config_php = Absent
    /\ data_dir = FALSE
    /\ ocdata = FALSE
    /\ app_config = Absent
    /\ peers = {}
    /\ install_invoked = FALSE
    /\ pending = IF leader THEN LeaderEvents ELSE FollowerEvents
    /\ ev = NoDelivery

NextLive ==
    \/ LiveInstall
    \/ LiveConfigChanged
    \/ LiveStart
    \/ LiveLeaderElected
    \/ LiveMasterChanged
    \/ LiveClusterRelationChanged
    \/ LiveUpdateStatus
    \/ RemotePublish

\* the runtime delivers what is pending, the update-status hook keeps coming,
\* and the leader on the other unit publishes its configuration
SpecLive ==
    /\ InitLive /\ [][NextLive]_vars
    /\ WF_vars(LiveInstall)
    /\ WF_vars(LiveConfigChanged)
    /\ WF_vars(LiveStart)
    /\ WF_vars(LiveLeaderElected)
    /\ WF_vars(LiveMasterChanged)
    /\ WF_vars(LiveClusterRelationChanged)
    /\ WF_vars(LiveUpdateStatus)
    /\ WF_vars(RemotePublish)

---------------------------------------------------------------------------
(* Properties. *)

\* the commands of a delivery, in order
Cmds(e) == [i \in DOMAIN e.cmds |-> e.cmds[i].cmd]
Ran(e, cmd) == \E i \in DOMAIN e.cmds : e.cmds[i].cmd = cmd
\* command cmd of the delivery ended with a non-zero exit code
Failed(e, cmd) == \E i \in DOMAIN e.cmds : e.cmds[i].cmd = cmd /\ e.cmds[i].rc # 0
Count(e, cmd) == Cardinality({i \in DOMAIN e.cmds : e.cmds[i].cmd = cmd})

\* what a delivery can change of the unit besides the delivery record
persisted == <<stored, root_dir, config_dir, config_php, data_dir, ocdata, app_config,
               peers, install_invoked>>

AllFlags(s) == \A f \in Flags : s[f]

\* the order in which the status evaluation is to look at the flags, and the
\* message for each
FlagOrder == <<"nextcloud_fetched", "nextcloud_initialized", "apache_configured",
               "php_configured", "database_available">>
FlagMessage == <<"Nextcloud not fetched.", "Nextcloud not initialized.",
                 "Apache not configured.", "PHP not configured.", "No database.">>
Unmet(s) == {i \in DOMAIN FlagOrder : ~s[FlagOrder[i]]}
FirstUnmet(s) == CHOOSE i \in Unmet(s) : \A j \in Unmet(s) : i <= j

\* C1: an update-status delivery that runs to its end reports Blocked with the
\* message of the first flag, in the order fetched, initialized, apache, php,
\* database, that is false, and Active 'Ready' exactly when all five are true;
\* it ends otherwise only on a leader with all five flags true.
C1_StatusFirstUnmet ==
    ev.name = "update_status" =>
        /\ ev.outcome = "done" =>
              /\ Unmet(stored) # {} =>
                    ev.status = BlockedStatus(FlagMessage[FirstUnmet(stored)])
              /\ Unmet(stored) = {} => ev.status = ActiveStatus("Ready")
              /\ ev.status = ActiveStatus("Ready") <=> AllFlags(stored)
        /\ ev.outcome # "done" => AllFlags(stored) /\ ev.is_leader

\* apache_configured is false while the flags after it are true: the message is Apache's
C1_Witness ==
    /\ ev.name = "update_status" /\ ev.outcome = "done"
    /\ stored.nextcloud_fetched /\ stored.nextcloud_initialized
    /\ ~stored.apache_configured /\ stored.php_configured /\ stored.database_available
    /\ ev.status = BlockedStatus("Apache not configured.")

MasterGone(e) ==
    e.name = "master_changed" /\ e.args.database = "nextcloud" /\ e.args.master = 0

ConnCleared(s) == \A f \in ConnFields : s[f] = None

\* C2 as claimed: after a master-changed delivery with master None for the
\* database 'nextcloud' (here already on the leader), all connection fields are
\* None and database_available is false.
C2_ClearedAndUnavailable ==
    (MasterGone(ev) /\ ev.is_leader) => ConnCleared(stored) /\ ~stored.database_available

\* C2, amended: after a master-changed delivery with master None for the database
\* 'nextcloud' on the leader, all connection fields are None and
\* database_available has the value it had before the delivery.
C2_ClearedFlagKept ==
    [][(MasterGone(ev') /\ ev'.is_leader) =>
           /\ ConnCleared(stored')
           /\ stored'.database_available = stored.database_available]_vars

\* the master went away after it had been recorded: the fields are cleared, the
\* flag stays
C2_Witness ==
    MasterGone(ev) /\ ev.is_leader /\ ConnCleared(stored) /\ stored.database_available

\* C3: database-relation-joined on the leader requests the database 'nextcloud'
\* and exactly the extension citext and does not defer; on a non-leader whose
\* event names another database it defers and changes neither the event nor any
\* persisted state; on a non-leader whose event names 'nextcloud' it changes
\* nothing and does not defer.
C3_DatabaseRelationJoined ==
    [][ev'.name = "database_relation_joined" =>
           IF ev'.is_leader
           THEN /\ ev'.event.database = "nextcloud"
                /\ ev'.event.extensions = <<"citext">>
                /\ ev'.outcome = "done"
           ELSE /\ ev'.outcome = IF ev'.args.database # "nextcloud"
                                 THEN "deferred" ELSE "done"
                /\ ev'.event = ev'.args
                /\ UNCHANGED persisted]_vars

C3_Witness ==
    /\ ev.name = "database_relation_joined" /\ ~ev.is_leader
    /\ ev.args.database = "other" /\ ev.outcome = "deferred"
    /\ AllFlags(stored)

ClusterChangedOnNonLeader(e) == e.name = "cluster_relation_changed" /\ ~e.is_leader

\* C4: cluster-relation-changed on a non-leader, with no 'nextcloud_config' in the
\* application data, defers, writes no file, creates no directory or marker and
\* leaves every persisted flag as it is.
C4_NoPayloadDefers ==
    [][(ClusterChangedOnNonLeader(ev') /\ ~app_config.exists) =>
           /\ ev'.outcome = "deferred"
           /\ ev'.cmds = << >>
           /\ UNCHANGED persisted]_vars

C4_Witness ==
    /\ ClusterChangedOnNonLeader(ev) /\ ~app_config.exists
    /\ ev.outcome = "deferred" /\ stored.nextcloud_fetched

\* the payload is the content of config.php, the data directory and its marker
\* are there, each made only if it was absent, both flags are set and the
\* delivery has run to its end
PayloadCopied ==
    /\ config_php' = app_config
    /\ data_dir' /\ ocdata'
    /\ Cmds(ev') = <<"write config.php">>
                   \o (IF data_dir THEN << >> ELSE <<"mkdir data">>)
                   \o (IF ocdata THEN << >> ELSE <<"create .ocdata">>)
                   \o <<"chown www-data">>
    /\ stored'.database_available /\ stored'.nextcloud_initialized
    /\ \A f \in DOMAIN stored \ {"database_available", "nextcloud_initialized"} :
           stored'[f] = stored[f]
    /\ ev'.outcome = "done"

\* C5 as claimed: cluster-relation-changed on a non-leader, with
\* 'nextcloud_config' in the application data, writes the payload as the content
\* of config.php, then makes the data directory and the .ocdata marker, each
\* only if absent, sets database_available and nextcloud_initialized and does
\* not defer.
C5_PayloadCopied ==
    [][(ClusterChangedOnNonLeader(ev') /\ app_config.exists) => PayloadCopied]_vars

\* C5, amended: it does so on a unit that has the directory of config.php; on a
\* unit that lacks it the delivery fails with nothing written, nothing made and
\* no flag set.
C5_PayloadCopiedIntoConfigDir ==
    [][(ClusterChangedOnNonLeader(ev') /\ app_config.exists) =>
           IF config_dir
           THEN PayloadCopied
           ELSE /\ ev'.outcome = "raise"
                /\ ev'.cmds = << >>
                /\ UNCHANGED persisted]_vars

\* a unit with neither flag set and no data directory has copied the payload
C5_Witness ==
    /\ ClusterChangedOnNonLeader(ev) /\ ev.outcome = "done"
    /\ Ran(ev, "mkdir data") /\ Ran(ev, "create .ocdata")
    /\ config_php = app_config /\ config_php.exists
    /\ stored.database_available /\ stored.nextcloud_initialized

\* C6: no step takes one of the five flags from true to false.
C6_FlagsOnlyRise ==
    [][\A f \in Flags : stored[f] => stored'[f]]_vars

\* all five flags are true and the master has just gone away
C6_Witness ==
    AllFlags(stored) /\ MasterGone(ev) /\ ev.is_leader /\ install_invoked

\* C7: a master-changed delivery on a unit that is not the leader, or for a
\* database other than 'nextcloud', leaves the persisted state as it is and runs
\* no command.
C7_OnlyLeaderPersists ==
    [][(ev'.name = "master_changed"
        /\ (~ev'.is_leader \/ ev'.args.database # "nextcloud")) =>
           /\ UNCHANGED persisted
           /\ ev'.cmds = << >>
           /\ ev'.outcome = "done"]_vars

\* a non-leader is told of an available master for 'nextcloud'
C7_Witness ==
    /\ ev.name = "master_changed" /\ ~ev.is_leader
    /\ ev.args.database = "nextcloud" /\ ev.args.master # 0
    /\ ~stored.database_available /\ stored.dbname = Unset

\* C8 as claimed: 'occ maintenance:install' is invoked at most once: no delivery
\* invokes it after an earlier one has.
C8_InstallAtMostOnce ==
    [][Ran(ev', "occ maintenance:install") => ~install_invoked]_vars

\* C8, amended: 'occ maintenance:install' is invoked only by a master-changed
\* delivery that begins with nextcloud_initialized false, and once in it.
C8_InstallOnlyWhileUninitialized ==
    [][Ran(ev', "occ maintenance:install") =>
           /\ ev'.name = "master_changed"
           /\ ~stored.nextcloud_initialized
           /\ Count(ev', "occ maintenance:install") = 1]_vars

\* the leader, told of an available master, has run the install once in this
\* delivery and recorded the initialization
C8_Witness ==
    /\ ev.name = "master_changed" /\ ev.is_leader
    /\ ev.args.database = "nextcloud" /\ ev.args.master # 0
    /\ Count(ev, "occ maintenance:install") = 1
    /\ install_invoked /\ stored.nextcloud_initialized

\* C9 as claimed: when 'occ maintenance:install' or the 'occ status' after it
\* exits non-zero in a master-changed delivery, the delivery ends the process
\* non-zero and nextcloud_initialized stays false.
C9_CliFailureTerminates ==
    (/\ ev.name = "master_changed"
     /\ Ran(ev, "occ maintenance:install")
     /\ (Failed(ev, "occ maintenance:install") \/ Failed(ev, "occ status"))) =>
        TerminatedNonZero(ev.outcome) /\ ~stored.nextcloud_initialized

\* C10: when the package install command of an install delivery fails, the
\* process exits non-zero, the archive is not fetched in that delivery and the
\* persisted state, nextcloud_fetched and the other flags, is as before.
C10_DepsFailureExits ==
    [][(ev'.name = "install" /\ Failed(ev', "apt install")) =>
           /\ ev'.outcome = "exit"
           /\ ~Ran(ev', "requests.get") /\ ~Ran(ev', "tarfile.extractall")
           /\ UNCHANGED persisted]_vars

C10_Witness ==
    /\ ev.name = "install" /\ Failed(ev, "apt install") /\ ev.outcome = "exit"
    /\ ~stored.nextcloud_fetched

\* C11: the archive is fetched only by an install delivery that begins with
\* nextcloud_fetched false; nextcloud_fetched becomes true only in an install
\* delivery whose download and extraction both ended without error; so once
\* the flag is true no later delivery fetches the archive.
C11_FetchOnlyUntilFetched ==
    [][/\ (Ran(ev', "requests.get") \/ Ran(ev', "tarfile.extractall")) =>
              ev'.name = "install" /\ ~stored.nextcloud_fetched
       /\ (~stored.nextcloud_fetched /\ stored'.nextcloud_fetched) =>
              /\ ev'.name = "install"
              /\ Count(ev', "requests.get") = 1 /\ ~Failed(ev', "requests.get")
              /\ Count(ev', "tarfile.extractall") = 1
              /\ ~Failed(ev', "tarfile.extractall")
       /\ stored.nextcloud_fetched => ~Ran(ev', "requests.get")]_vars

\* an install delivery on a unit that has the archive: the packages are
\* installed, nothing is fetched
C11_Witness ==
    /\ ev.name = "install" /\ ev.outcome = "done"
    /\ Ran(ev, "apt install") /\ ~Ran(ev, "requests.get")
    /\ stored.nextcloud_fetched

\* C12: a delivery writes 'nextcloud_config' into the application data of the
\* cluster relation only on a unit that is leader in that delivery; a delivery
\* on a non-leader leaves the application data and the request it is handed
\* by the database relation as they are; a cluster-relation-changed delivery on the leader writes nothing,
\* config.php included.
C12_LeaderAuthoritative ==
    [][/\ (Ran(ev', "relation-set nextcloud_config") \/
            (ev'.name # "none" /\ app_config' # app_config)) => ev'.is_leader
       /\ (ev'.name # "none" /\ ~ev'.is_leader) =>
              /\ app_config' = app_config
              /\ ev'.name = "database_relation_joined" => ev'.event = ev'.args
       /\ (ev'.name = "cluster_relation_changed" /\ ev'.is_leader) =>
              /\ config_php' = config_php
              /\ ~Ran(ev', "write config.php")
              /\ UNCHANGED persisted]_vars

\* the leader is told of a change of the cluster relation while the
\* application data holds a configuration that is not its own config.php
C12_Witness ==
    /\ ev.name = "cluster_relation_changed" /\ ev.is_leader
    /\ app_config.exists /\ config_php # app_config

\* the first command of the delivery is the call that updates the trusted
\* domains, handed the addresses ips
UpdatesTrustedDomains(e, ips) ==
    /\ e.cmds # << >>
    /\ e.cmds[1].cmd = "occ trusted_domains peers"
    /\ e.cmds[1].ips = ips

\* C13: a cluster-relation-joined or -departed delivery on an initialized
\* leader first calls for the update of the trusted domains with the addresses
\* of all units of the relation after the join or the departure and the
\* leader's own; where the call succeeds these are the peer addresses among
\* the trusted domains of config.php; the delivery then publishes as
\* 'nextcloud_config' the content config.php has after that, and does nothing
\* else; only a call that ends the process keeps it from publishing.  A
\* cluster-relation-joined delivery on a leader that is not initialized defers
\* and publishes nothing.
C13_TrustedDomainsRepublished ==
    [][/\ (/\ ev'.name \in {"cluster_relation_joined", "cluster_relation_departed"}
           /\ ev'.is_leader /\ stored.nextcloud_initialized) =>
              /\ config_php'.exists
              /\ peers' = IF ev'.name = "cluster_relation_joined"
                          THEN peers \cup {ev'.args.unit} ELSE peers \ {ev'.args.unit}
              /\ UpdatesTrustedDomains(ev', peers' \cup {ThisUnitIP})
              /\ ~Failed(ev', "occ trusted_domains peers") =>
                     config_php'.trusted_peers = peers' \cup {ThisUnitIP}
              /\ ev'.outcome = "done" =>
                     /\ Cmds(ev') = <<"occ trusted_domains peers",
                                       "relation-set nextcloud_config">>
                     /\ app_config' = config_php'
              /\ ev'.outcome # "done" =>
                     /\ ev'.outcome = "exit"
                     /\ Failed(ev', "occ trusted_domains peers")
                     /\ Len(ev'.cmds) = 1
                     /\ app_config' = app_config
       /\ (/\ ev'.name = "cluster_relation_joined"
           /\ ev'.is_leader /\ ~stored.nextcloud_initialized) =>
              /\ ev'.outcome = "deferred"
              /\ ev'.cmds = << >>
              /\ UNCHANGED <<stored, config_php, app_config>>]_vars

\* one of two peers has left an initialized leader: the address of the peer
\* that stays is in config.php and in what is published, that of the peer
\* that left is in neither
C13_Witness ==
    /\ ev.name = "cluster_relation_departed" /\ ev.is_leader
    /\ stored.nextcloud_initialized /\ ev.outcome = "done"
    /\ Cardinality(peers) = 1 /\ ev.args.unit \notin peers
    /\ ev.cmds[1].ips = peers \cup {ThisUnitIP}
    /\ config_php.trusted_peers = peers \cup {ThisUnitIP}
    /\ app_config = config_php

\* C14: an update-status delivery runs the status command exactly when the unit
\* is the leader and all five flags are true, and sets the workload version
\* only then and only after that command; a non-leader with all five flags
\* true sets Active 'Ready' and runs nothing; with a flag false no unit runs
\* the status command.
C14_VersionOnLeaderOnly ==
    ev.name = "update_status" =>
        /\ Ran(ev, "occ status") <=> (ev.is_leader /\ AllFlags(stored))
        /\ (ev.workload_version # NoVersion \/ Ran(ev, "application-version-set")) =>
              /\ ev.is_leader /\ AllFlags(stored)
              /\ Cmds(ev) = <<"occ status", "application-version-set", "status-set">>
        /\ (~ev.is_leader /\ AllFlags(stored)) =>
              /\ ev.status = ActiveStatus("Ready")
              /\ Cmds(ev) = <<"status-set">>
              /\ ev.outcome = "done"
        /\ ~AllFlags(stored) => Cmds(ev) = <<"status-set">>

\* a non-leader with all five flags true is Active without a version
C14_Witness ==
    /\ ev.name = "update_status" /\ ~ev.is_leader /\ AllFlags(stored)
    /\ ev.status = ActiveStatus("Ready") /\ ev.workload_version = NoVersion

\* the output is tokens, whitespace, the status document, whitespace: `pre`
\* is empty or ends with whitespace, `post` is whitespace only
EndsWithDocument(out, doc) ==
    \E k \in DOMAIN out :
        /\ out[k] = doc
        /\ k > 1 => out[k - 1] = WS
        /\ \A j \in DOMAIN out : j > k => out[j] = WS

\* C15: for an output of the status command made of any leading tokens
\* followed by a status document as its last whitespace-delimited token,
\* get_nextcloud_status returns what it returns for the document alone, the
\* document's dictionary; it returns nothing only where the command did not
\* run and so printed nothing.
C15_LastTokenParsed ==
    ev.name = "get_nextcloud_status" =>
        /\ Ran(ev, "occ status") <=> root_dir
        /\ ~Ran(ev, "occ status") => ev.result.raised
        /\ Ran(ev, "occ status") =>
               \A installed \in BOOLEAN :
                   EndsWithDocument(ev.out, StatusJson(installed)) =>
                       /\ ev.result = get_nextcloud_status(<<StatusJson(installed)>>)
                       /\ ~ev.result.raised
                       /\ ev.result.dict =
                              [installed |-> installed, version |-> "18.0.3"]

\* the command ran and printed a document that says installed after a token
\* that is another document
C15_Witness ==
    /\ ev.name = "get_nextcloud_status" /\ Ran(ev, "occ status")
    /\ ev.out = <<StatusJson(FALSE), WS, StatusJson(TRUE)>>
    /\ ~ev.result.raised /\ ev.result.dict.installed

\* config.php is a copy of what a leader on another unit published
CopiedFromLeader(config) == config.exists /\ config.origin = "remote"

AvailableMaster(e) ==
    e.name = "master_changed" /\ e.args.database = "nextcloud" /\ e.args.master # 0

\* C16: no delivery to a unit whose nextcloud_initialized is true invokes
\* 'occ maintenance:install'; a unit whose config.php is a copy of the leader's
\* is initialized, and stays so, and no delivery to it invokes the install,
\* whatever the unit's later role and events; the file stays a copy of the
\* leader's unless an install delivery extracts an archive over it.
C16_InitializedNeverInstalls ==
    [][/\ stored.nextcloud_initialized => ~Ran(ev', "occ maintenance:install")
       /\ CopiedFromLeader(config_php) =>
              /\ stored.nextcloud_initialized /\ stored'.nextcloud_initialized
              /\ ~Ran(ev', "occ maintenance:install")
              /\ CopiedFromLeader(config_php') \/ Ran(ev', "tarfile.extractall")]_vars

\* a unit that copied the leader's configuration and never ran the install is
\* now the leader and is told of an available master: it runs nothing
C16_Witness ==
    /\ AvailableMaster(ev) /\ ev.is_leader
    /\ CopiedFromLeader(config_php) /\ ~install_invoked
    /\ stored.nextcloud_initialized /\ stored.dbname # Unset
    /\ ev.cmds = << >>

\* C17: a master-changed delivery on the leader with an available master for
\* 'nextcloud' sets database_available whatever becomes of the initialization
\* it starts, and sets nextcloud_initialized only if it runs to its end; so
\* database_available true with nextcloud_initialized false is a state of the
\* unit (the witness), and 'database_available implies nextcloud_initialized'
\* is no invariant.
C17_AvailableBeforeInitialized ==
    [][(AvailableMaster(ev') /\ ev'.is_leader) =>
           /\ stored'.database_available
           /\ ev'.outcome # "done" =>
                  stored'.nextcloud_initialized = stored.nextcloud_initialized]_vars

\* the install command failed and the status says not installed: the delivery
\* ends with the database available and the application not initialized
C17_Witness ==
    /\ AvailableMaster(ev) /\ ev.is_leader /\ ev.outcome = "done"
    /\ Failed(ev, "occ maintenance:install")
    /\ stored.database_available /\ ~stored.nextcloud_initialized

\* C18: a start delivery on a unit whose nextcloud_initialized is false defers
\* and runs nothing: no restart, no status, no port.  On an initialized unit it
\* restarts the web server first; if the restart fails it exits non-zero with
\* nothing else run; otherwise it evaluates the status and then, last, opens
\* port 80.  It ends otherwise only when the status evaluation raises, on a
\* leader with all five flags true, and then the port is not opened.
C18_StartOrder ==
    [][ev'.name = "start" =>
           /\ UNCHANGED persisted
           /\ ~stored.nextcloud_initialized =>
                  /\ ev'.outcome = "deferred"
                  /\ ev'.cmds = << >> /\ ev'.status = NoStatus
           /\ stored.nextcloud_initialized =>
                  LET cs == Cmds(ev') IN
                  /\ cs # << >> /\ cs[1] = "systemctl restart apache2.service"
                  /\ Count(ev', "systemctl restart apache2.service") = 1
                  /\ Failed(ev', "systemctl restart apache2.service") =>
                         ev'.outcome = "exit" /\ Len(cs) = 1
                  /\ ~Failed(ev', "systemctl restart apache2.service") =>
                         /\ ev'.outcome \in {"done", "raise"}
                         /\ ev'.outcome = "done" =>
                                /\ Len(cs) >= 3
                                /\ cs[Len(cs) - 1] = "status-set"
                                /\ ev'.status = update_status_label(stored)
                                /\ cs[Len(cs)] = "open-port 80"
                                /\ Count(ev', "open-port 80") = 1
                         /\ ev'.outcome = "raise" =>
                                /\ ev'.is_leader /\ AllFlags(stored)
                                /\ cs[Len(cs)] = "occ status"
                                /\ ~Ran(ev', "open-port 80")]_vars

\* an initialized unit that lacks the web server configuration restarts the
\* web server, reports Blocked and opens the port
C18_Witness ==
    /\ ev.name = "start" /\ ev.outcome = "done" /\ stored.nextcloud_initialized
    /\ Cmds(ev) = <<"systemctl restart apache2.service", "status-set", "open-port 80">>
    /\ ev.status = BlockedStatus("Apache not configured.")

\* the maintenance mode the commands of a delivery leave: that of the last
\* mode command that succeeded
RECURSIVE ModeAfter(_, _)
ModeAfter(cmds, before) ==
    IF cmds = << >> THEN before
    ELSE LET x == Head(cmds)
             now == IF x.rc # 0 THEN before
                    ELSE IF x.cmd = "occ maintenance:mode --on" THEN "on"
                    ELSE IF x.cmd = "occ maintenance:mode --off" THEN "off"
                    ELSE before IN
         ModeAfter(Tail(cmds), now)

IsPrefix(s, t) == Len(s) <= Len(t) /\ \A i \in DOMAIN s : s[i] = t[i]

ConvertOrder ==
    <<"occ maintenance:mode --on", "occ db:convert-filecache-bigint",
      "set_results", "occ maintenance:mode --off">>

\* the commands of the delivery before its command cmd
Before(e, cmd) ==
    SubSeq(e.cmds, 1, (CHOOSE i \in DOMAIN e.cmds : e.cmds[i].cmd = cmd) - 1)

\* C19 as claimed: the convert-filecache-bigint action turns maintenance mode
\* on before it runs the conversion and off after it: whenever the handler is
\* left, the conversion failed or not, the last command is the one that turns
\* the mode off and the mode is off, whatever it was before.
C19_MaintenanceAroundConvert ==
    ev.name = "convert_filecache_bigint_action" =>
        /\ Ran(ev, "occ db:convert-filecache-bigint") =>
               \A before \in {"on", "off"} :
                   ModeAfter(Before(ev, "occ db:convert-filecache-bigint"), before) = "on"
        /\ ev.cmds[Len(ev.cmds)].cmd = "occ maintenance:mode --off"
        /\ \A before \in {"on", "off"} : ModeAfter(ev.cmds, before) = "off"

\* C19, amended: the action runs, in this order, the command that turns
\* maintenance mode on, the conversion, the hand-over of its output and the
\* command that turns the mode off, up to the first of them that ends the
\* process; a delivery that runs to its end has run all four.  Where the
\* command that turns the mode on succeeded, the mode is on when the
\* conversion starts; where the last command ran and succeeded, the mode is
\* off at the end; where the conversion ends the process, the mode is not
\* turned off: it is on if it was turned on.
C19_MaintenanceUnlessProcessEnds ==
    ev.name = "convert_filecache_bigint_action" =>
        LET cs == Cmds(ev) IN
        /\ cs # << >> /\ IsPrefix(cs, ConvertOrder)
        /\ ev.outcome = "done" => cs = ConvertOrder
        /\ ev.outcome # "done" =>
               /\ ev.outcome = "exit"
               /\ ev.cmds[Len(cs)].rc # 0
               /\ cs[Len(cs)] # "set_results"
        /\ (Ran(ev, "occ db:convert-filecache-bigint")
            /\ ~Failed(ev, "occ maintenance:mode --on")) =>
               \A before \in {"on", "off"} :
                   ModeAfter(Before(ev, "occ db:convert-filecache-bigint"), before) = "on"
        /\ (Ran(ev, "occ maintenance:mode --off")
            /\ ~Failed(ev, "occ maintenance:mode --off")) =>
               \A before \in {"on", "off"} : ModeAfter(ev.cmds, before) = "off"
        /\ (ev.outcome = "exit" /\ Len(cs) = 2) =>
               /\ ~Ran(ev, "occ maintenance:mode --off")
               /\ ~Failed(ev, "occ maintenance:mode --on") =>
                      \A before \in {"on", "off"} : ModeAfter(ev.cmds, before) = "on"

\* the conversion failed and ended the process: maintenance mode, turned on
\* for it, was not turned off
C19_Witness ==
    /\ ev.name = "convert_filecache_bigint_action" /\ ev.outcome = "exit"
    /\ Cmds(ev) = <<"occ maintenance:mode --on", "occ db:convert-filecache-bigint">>
    /\ ~Failed(ev, "occ maintenance:mode --on")
    /\ Failed(ev, "occ db:convert-filecache-bigint")
    /\ ModeAfter(ev.cmds, "off") = "on"

\* the commands of a config-changed delivery up to the restart, in order
ConfigOrder ==
    <<"status-set", "write nextcloud.conf">> \o A2enmod
    \o <<"a2dissite 000-default", "a2ensite nextcloud", "status-set",
         "status-set", "write nextcloud.ini", "phpenmod nextcloud", "status-set",
         "systemctl restart apache2.service">>

\* C20: a config-changed delivery runs, whatever the flags, the commands of
\* ConfigOrder in that order (site, PHP module, restart) up to the first of
\* a2dissite, a2ensite, phpenmod and restart that fails, and after the restart
\* evaluates the status; apache_configured rises only in a config-changed
\* delivery in which a2dissite and a2ensite succeeded, php_configured only in
\* one in which phpenmod succeeded; a delivery that gets past the restart
\* leaves both flags true.
C20_Reconfigure ==
    [][/\ ev'.name = "config_changed" =>
              LET cs == Cmds(ev') IN
              /\ IsPrefix(cs, ConfigOrder) \/ IsPrefix(ConfigOrder, cs)
              /\ Len(cs) < Len(ConfigOrder) =>
                     ev'.outcome = "raise" /\ ev'.cmds[Len(cs)].rc # 0
              /\ Len(cs) = Len(ConfigOrder) =>
                     Failed(ev', "systemctl restart apache2.service")
              /\ Len(cs) > Len(ConfigOrder) =>
                     /\ \A i \in DOMAIN ConfigOrder : ev'.cmds[i].rc = 0
                     /\ stored'.apache_configured /\ stored'.php_configured
                     /\ ev'.outcome = "done" =>
                            /\ cs[Len(cs)] = "status-set"
                            /\ ev'.status = update_status_label(stored')
              /\ ev'.outcome = "done" => Len(cs) > Len(ConfigOrder)
       /\ (~stored.apache_configured /\ stored'.apache_configured) =>
              /\ ev'.name = "config_changed"
              /\ Ran(ev', "a2dissite 000-default") /\ Ran(ev', "a2ensite nextcloud")
              /\ ~Failed(ev', "a2dissite 000-default")
              /\ ~Failed(ev', "a2ensite nextcloud")
       /\ (~stored.php_configured /\ stored'.php_configured) =>
              /\ ev'.name = "config_changed"
              /\ Ran(ev', "phpenmod nextcloud") /\ ~Failed(ev', "phpenmod nextcloud")]_vars

\* the site was enabled and the PHP module was not: the delivery ended there
C20_Witness ==
    /\ ev.name = "config_changed" /\ ev.outcome = "raise"
    /\ Failed(ev, "phpenmod nextcloud")
    /\ stored.apache_configured /\ ~stored.php_configured

StartDeferred == ev.name = "start" /\ ev.outcome = "deferred"
StartDone ==
    /\ ev.name = "start" /\ ev.outcome = "done"
    /\ Ran(ev, "systemctl restart apache2.service") /\ Ran(ev, "open-port 80")
ReportsReady == ev.name = "update_status" /\ ev.status = ActiveStatus("Ready")

\* C21 as claimed: where every command succeeds and the runtime delivers the
\* pending events, the deferred and the failed ones again, the unit, leader or
\* not, comes to have all five flags true for good; a start event that was
\* deferred leads to a start delivery that restarts the web server and opens
\* port 80; and from some point on every update-status delivery reports
\* Active 'Ready', and such deliveries keep coming.
C21_EventuallyReady ==
    /\ <>[]AllFlags(stored)
    /\ StartDeferred ~> StartDone
    /\ <>[](ev.name = "update_status" => ReportsReady)
    /\ []<>ReportsReady

====
